---------------------------- MODULE Spec2Model ----------------------------
(***************************************************************************)
(* A model of the competitive-rust utility crates:                         *)
(*   - dopecomp_fenwick: FenwickTree<T> (update / query / bin_search and   *)
(*     the additive convenience layer), specification Spec;                *)
(*   - the 2-D tree FenwickTree<FenwickTree<T>>, specification Spec2d;     *)
(*   - dopecomp_graph: Graph construction and pushes on their own,         *)
(*     specification GraphSpec;                                            *)
(*   - dopecomp_graph + dopecomp_euler: Graph construction and the         *)
(*     Eulerian path / cycle solver, specification EulerSpec;              *)
(*   - dopecomp_io: InParser, specification InSpec, and OutParser,         *)
(*     specification OutSpec.                                              *)
(* Vectors indexed from 0 in the source are functions on 0..len-1 for the  *)
(* Fenwick tree (data) and sequences read through At(vec, i) = vec[i + 1]  *)
(* for the graph and the solver.                                           *)
(***************************************************************************)
EXTENDS Integers, Sequences, FiniteSets, TLC

VARIABLES
    \* ---- FenwickTree<i32> and the caller around it
    data,        \* FenwickTree.data : 0..n -> Int
    arr,         \* the naive array `v` the tests keep beside the tree
    nops,        \* number of add_value calls made so far
    call,        \* the last call made on the tree and how it ended
    \* ---- Graph<(), E>
    nodes,       \* Graph.nodes (unit payloads)
    edges,       \* Graph.edges, stored after transf
    adj_list,    \* Graph.adj_list, one sequence of edge ids per node
    undirected,  \* Graph.undirected
    edgesIn,     \* the (from, to) pairs the edges were built from
    \* ---- one solve_eulerian call
    pc,          \* "new" | "build" | "dfs" | "done" ("off": no graph program)
    cycle,       \* the `cycle` argument
    used_edge,   \* EulerianCycleSolver.used_edge
    last_edge,   \* EulerianCycleSolver.last_edge
    result,      \* EulerianCycleSolver.result
    stack,       \* nodes of the active eulerian_dfs invocations, innermost last
    dfs_calls,   \* number of eulerian_dfs invocations started
    out,         \* "pending" | "Some" | "None" | "panic"
    \* ---- InParser<T> and the byte source under its BufReader
    stream,      \* the whole byte stream of the source
    reader,      \* the chunks the source has still to hand to fill_buf
    buffer,      \* InParser.buffer
    cursor,      \* InParser.cursor
    eof_flag,    \* InParser.eof_flag
    inCall,      \* the last call made on the parser and how it ended
    trace,       \* the calls that moved the parser, oldest first
    \* ---- OutParser<T>, its BufWriter and the sink under it
    writer,      \* the bytes held in the BufWriter's buffer
    sink,        \* the bytes the sink has taken
    shortSink,   \* whether the sink may take fewer bytes than it is offered
    written,     \* the textual forms of the values written, concatenated
    wpc          \* "off" | "open" | "dropped"

fenVars == <<data, arr, nops, call>>
graphVars == <<nodes, edges, adj_list, undirected, edgesIn>>
solverVars == <<pc, cycle, used_edge, last_edge, result, stack, dfs_calls, out>>
inVars == <<stream, reader, buffer, cursor, eof_flag, inCall, trace>>
outVars == <<writer, sink, shortSink, written, wpc>>
ioVars == <<inVars, outVars>>
vars == <<data, arr, nops, call, nodes, edges, adj_list, undirected, edgesIn,
          pc, cycle, used_edge, last_edge, result, stack, dfs_calls, out,
          stream, reader, buffer, cursor, eof_flag, inCall, trace,
          writer, sink, shortSink, written, wpc>>

-----------------------------------------------------------------------------
(* Bounds of the model *)

MaxN == 4
MaxOps == 2
MaxV == 4
MaxE == 2
MaxR == 2
MaxC == 2
MaxInput == 4
MaxOut == 6

\* the values added by the calls, and the thresholds k of the predicates
\* |val| val <= k, from below every prefix sum to above every prefix sum
Deltas == {0 - 1, 1, 2}
\* the neutral elements handed to query: the 0 of a sum and a value that is not
Neutrals == {0, 5}
Thresholds == (0 - 1) .. (2 * MaxOps + 1)

-----------------------------------------------------------------------------
(* dopecomp_fenwick *)

\* for l in (0..30).rev()
BinSearchLevels == 30

\* val & (!val + 1): the value of the lowest set bit of val (0 for val = 0)
RECURSIVE lsb(_)
lsb(val) ==
    IF val = 0 THEN 0
    ELSE IF val % 2 = 1 THEN 1
    ELSE 2 * lsb(val \div 2)

\* data.len()
DataLen(d) == Cardinality(DOMAIN d)

\* FenwickTree::new(n): n + 1 default values
new(n) == [i \in 0 .. n |-> 0]

\* update with the upper bound test off by one (pos > len)
UpdateOutOfBoundsLate(d, pos) == pos = 0 \/ pos > DataLen(d)

\* the bounds test of update: true when update panics
UpdateOutOfBounds(d, pos) == pos = 0 \/ pos >= DataLen(d)

\* update walking pos += 1 instead of pos += lsb(pos)
RECURSIVE UpdateLoopByOne(_, _, _)
UpdateLoopByOne(d, pos, val) ==
    IF pos < DataLen(d)
    THEN UpdateLoopByOne([d EXCEPT ![pos] = @ + val], pos + 1, val)
    ELSE d

\* the while loop of update with the mutator |e| *e = *e + val
RECURSIVE UpdateLoop(_, _, _)
UpdateLoop(d, pos, val) ==
    IF pos < DataLen(d)
    THEN UpdateLoop([d EXCEPT ![pos] = @ + val], pos + lsb(pos), val)
    ELSE d

\* query answering position 0 with the panic update has for it
QueryOutOfBoundsAtZero(d, pos) == pos = 0 \/ pos >= DataLen(d)

\* the bounds test of query: true when query panics
QueryOutOfBounds(d, pos) == pos >= DataLen(d)

\* query walking pos -= 1 instead of pos -= lsb(pos)
RECURSIVE QueryLoopByOne(_, _, _)
QueryLoopByOne(d, pos, res) ==
    IF pos > 0
    THEN QueryLoopByOne(d, pos - 1, res + d[pos])
    ELSE res

\* the while loop of query with the composition |s, e| s + *e
RECURSIVE QueryLoop(_, _, _)
QueryLoop(d, pos, res) ==
    IF pos > 0
    THEN QueryLoop(d, pos - lsb(pos), res + d[pos])
    ELSE res

\* query running its loop body once before the first test of pos > 0
RECURSIVE QueryCallsLoopFirst(_)
QueryCallsLoopFirst(pos) ==
    IF pos - lsb(pos) > 0
    THEN 1 + QueryCallsLoopFirst(pos - lsb(pos))
    ELSE 1

\* the number of times the while loop of query calls composition
RECURSIVE QueryCalls(_)
QueryCalls(pos) ==
    IF pos > 0
    THEN 1 + QueryCalls(pos - lsb(pos))
    ELSE 0

\* prefix_sum(pos) for an in-range pos
prefix_sum(d, pos) == QueryLoop(d, pos, 0)

\* range_sum returning the prefix up to end, nothing subtracted
range_sum_whole_prefix(d, start, end) == QueryLoop(d, end, 0)

\* range_sum(start, end) for in-range arguments
range_sum(d, start, end) == QueryLoop(d, end, 0) - QueryLoop(d, start - 1, 0)

\* the predicates handed to bin_search_sum: |val| val <= k
eval(k, val) == val <= k

\* bin_search keeping the old running sum when it commits a step
RECURSIVE BinSearchLoopStaleSum(_, _, _, _, _)
BinSearchLoopStaleSum(d, l, pos, sum, k) ==
    IF l < 0 THEN <<pos, pos + 1>>
    ELSE IF pos + 2 ^ l < DataLen(d)
         THEN LET new_pos == pos + 2 ^ l
                  new_sum == sum + d[new_pos]
              IN  IF eval(k, new_sum)
                  THEN BinSearchLoopStaleSum(d, l - 1, new_pos, sum, k)
                  ELSE BinSearchLoopStaleSum(d, l - 1, pos, sum, k)
         ELSE BinSearchLoopStaleSum(d, l - 1, pos, sum, k)

\* the for loop of bin_search, levels l, l-1, .., 0 still to go
RECURSIVE BinSearchLoop(_, _, _, _, _)
BinSearchLoop(d, l, pos, sum, k) ==
    IF l < 0 THEN <<pos, pos + 1>>
    ELSE IF pos + 2 ^ l < DataLen(d)
         THEN LET new_pos == pos + 2 ^ l
                  new_sum == sum + d[new_pos]
              IN  IF eval(k, new_sum)
                  THEN BinSearchLoop(d, l - 1, new_pos, new_sum, k)
                  ELSE BinSearchLoop(d, l - 1, pos, sum, k)
         ELSE BinSearchLoop(d, l - 1, pos, sum, k)

\* bin_search_sum(|val| val <= k)
bin_search_sum(d, k) == BinSearchLoop(d, BinSearchLevels - 1, 0, 0, k)

NoCall == [op |-> "new", a |-> 0, b |-> 0, ret |-> <<>>, panicked |-> FALSE]

\* no parser call made yet
NoRead == [op |-> "new", next |-> <<>>, ret |-> <<>>, panicked |-> FALSE]

\* no InParser and no OutParser beside the program
IoIdle ==
    /\ stream = <<>> /\ reader = <<>> /\ buffer = <<>> /\ cursor = 0
    /\ eof_flag = FALSE /\ inCall = NoRead /\ trace = <<>>
    /\ writer = <<>> /\ sink = <<>> /\ shortSink = FALSE /\ written = <<>>
    /\ wpc = "off"

FenIdle ==
    /\ nodes = <<>> /\ edges = <<>> /\ adj_list = <<>> /\ undirected = FALSE
    /\ edgesIn = <<>> /\ pc = "off" /\ cycle = FALSE /\ used_edge = <<>>
    /\ last_edge = <<>> /\ result = <<>> /\ stack = <<>> /\ dfs_calls = 0
    /\ out = "pending"

Init ==
    /\ \E n \in 0 .. MaxN :
          /\ data = new(n)
          /\ arr = [i \in 0 .. n |-> 0]
    /\ nops = 0
    /\ call = NoCall
    /\ FenIdle
    /\ IoIdle

\* ft.add_value(pos, val), with the test's v[pos] += val beside it
AddValue ==
    /\ ~call.panicked
    /\ nops < MaxOps
    /\ \E pos \in 0 .. DataLen(data), val \in Deltas :
          IF UpdateOutOfBounds(data, pos)
          THEN /\ call' = [op |-> "add_value", a |-> pos, b |-> val,
                           ret |-> <<>>, panicked |-> TRUE]
               /\ UNCHANGED <<data, arr, nops>>
          ELSE /\ data' = UpdateLoop(data, pos, val)
               /\ arr' = [arr EXCEPT ![pos] = @ + val]
               /\ nops' = nops + 1
               /\ call' = [op |-> "add_value", a |-> pos, b |-> val,
                           ret |-> <<>>, panicked |-> FALSE]
    /\ UNCHANGED <<graphVars, solverVars, ioVars>>

\* ft.prefix_sum(pos)
PrefixSum ==
    /\ ~call.panicked
    /\ \E pos \in 0 .. DataLen(data) :
          call' = IF QueryOutOfBounds(data, pos)
                  THEN [op |-> "prefix_sum", a |-> pos, b |-> 0,
                        ret |-> <<>>, panicked |-> TRUE]
                  ELSE [op |-> "prefix_sum", a |-> pos, b |-> 0,
                        ret |-> <<prefix_sum(data, pos)>>, panicked |-> FALSE]
    /\ UNCHANGED <<data, arr, nops, graphVars, solverVars, ioVars>>

\* ft.range_sum(start, end): query(end) first, then query(start - 1);
\* start - 1 underflows usize for start = 0 (a panic, or an out-of-bounds query)
RangeSum ==
    /\ ~call.panicked
    /\ \E start \in 0 .. DataLen(data), end \in 0 .. DataLen(data) :
          call' = IF \/ QueryOutOfBounds(data, end)
                     \/ start = 0
                     \/ QueryOutOfBounds(data, start - 1)
                  THEN [op |-> "range_sum", a |-> start, b |-> end,
                        ret |-> <<>>, panicked |-> TRUE]
                  ELSE [op |-> "range_sum", a |-> start, b |-> end,
                        ret |-> <<range_sum(data, start, end)>>,
                        panicked |-> FALSE]
    /\ UNCHANGED <<data, arr, nops, graphVars, solverVars, ioVars>>

\* ft.bin_search_sum(|val| val <= k)
BinSearchSum ==
    /\ ~call.panicked
    /\ \E k \in Thresholds :
          call' = [op |-> "bin_search_sum", a |-> k, b |-> 0,
                   ret |-> bin_search_sum(data, k), panicked |-> FALSE]
    /\ UNCHANGED <<data, arr, nops, graphVars, solverVars, ioVars>>

\* ft.query(pos, neutral, |s, e| s + *e); ret is the value returned and the
\* number of calls of the composition
Query ==
    /\ ~call.panicked
    /\ \E pos \in 0 .. DataLen(data), neutral \in Neutrals :
          call' = IF QueryOutOfBounds(data, pos)
                  THEN [op |-> "query", a |-> pos, b |-> neutral,
                        ret |-> <<>>, panicked |-> TRUE]
                  ELSE [op |-> "query", a |-> pos, b |-> neutral,
                        ret |-> <<QueryLoop(data, pos, neutral), QueryCalls(pos)>>,
                        panicked |-> FALSE]
    /\ UNCHANGED <<data, arr, nops, graphVars, solverVars, ioVars>>

Next == AddValue \/ PrefixSum \/ RangeSum \/ BinSearchSum \/ Query

Spec == Init /\ [][Next]_vars

-----------------------------------------------------------------------------
(* dopecomp_fenwick, FenwickTree<FenwickTree<i32>>: specification Spec2d.      *)
(* data is the outer tree, data[i] an inner tree; arr is the naive grid.       *)

\* FenwickTree::from_data(data): the vector becomes the tree as it is
from_data(d) == d

\* the values added at the cells
Deltas2d == {1, 2}

\* update_2d leaving through the first covering row only
Update2dLoopOneRow(d, x, y, val) == [d EXCEPT ![x] = UpdateLoop(@, y, val)]

\* the outer while loop of update with update_2d's mutator
\* |inner| inner.update(y, |e| *e = *e + val)
RECURSIVE Update2dLoop(_, _, _, _)
Update2dLoop(d, x, y, val) ==
    IF x < DataLen(d)
    THEN Update2dLoop([d EXCEPT ![x] = UpdateLoop(@, y, val)],
                      x + lsb(x), y, val)
    ELSE d

\* true when update_2d panics: in the outer bounds test, or in the bounds
\* test of the first inner update, before any node is written
Update2dOutOfBounds(d, x, y) ==
    UpdateOutOfBounds(d, x) \/ UpdateOutOfBounds(d[x], y)

\* the outer while loop of query with query_2d's composition
\* |sum, inner| inner.query(y, sum, |s, e| s + *e)
RECURSIVE Query2dLoop(_, _, _, _)
Query2dLoop(d, x, y, res) ==
    IF x > 0
    THEN Query2dLoop(d, x - lsb(x), y, QueryLoop(d[x], y, res))
    ELSE res

\* true when query_2d panics: in the outer bounds test, or in the bounds test
\* of an inner query; for x = 0 no inner query is made
Query2dOutOfBounds(d, x, y) ==
    QueryOutOfBounds(d, x) \/ (x > 0 /\ QueryOutOfBounds(d[x], y))

\* prefix_rectangle_sum(x, y) for in-range arguments
prefix_rectangle_sum(d, x, y) == Query2dLoop(d, x, y, 0)

\* rectangle_sum adding no corner back
rectangle_sum_no_corner(d, x1, y1, x2, y2) ==
    prefix_rectangle_sum(d, x2, y2)
        - prefix_rectangle_sum(d, x1 - 1, y2)
        - prefix_rectangle_sum(d, x2, y1 - 1)

\* rectangle_sum(x1, y1, x2, y2) for in-range arguments
rectangle_sum(d, x1, y1, x2, y2) ==
    prefix_rectangle_sum(d, x2, y2)
        - prefix_rectangle_sum(d, x1 - 1, y2)
        - prefix_rectangle_sum(d, x2, y1 - 1)
        + prefix_rectangle_sum(d, x1 - 1, y1 - 1)

\* the numbers of rows and columns of the 2-D tree
Rows == DataLen(data) - 1
Cols == DataLen(data[0]) - 1

\* FenwickTree::from_data((0..=R).map(|_| FenwickTree::new(C)).collect())
Init2d ==
    /\ \E R \in 1 .. MaxR, C \in 1 .. MaxC :
          /\ data = from_data([i \in 0 .. R |-> new(C)])
          /\ arr = [i \in 0 .. R |-> [j \in 0 .. C |-> 0]]
    /\ nops = 0
    /\ call = NoCall
    /\ FenIdle
    /\ IoIdle

\* ft.add_value_2d(x, y, val), with the naive grid updated beside it
AddValue2d ==
    /\ ~call.panicked
    /\ nops < MaxOps
    /\ \E x \in 0 .. (Rows + 1), y \in 0 .. (Cols + 1), val \in Deltas2d :
          IF Update2dOutOfBounds(data, x, y)
          THEN /\ call' = [op |-> "add_value_2d", a |-> <<x, y>>, b |-> val,
                           ret |-> <<>>, panicked |-> TRUE]
               /\ UNCHANGED <<data, arr, nops>>
          ELSE /\ data' = Update2dLoop(data, x, y, val)
               /\ arr' = [arr EXCEPT ![x][y] = @ + val]
               /\ nops' = nops + 1
               /\ call' = [op |-> "add_value_2d", a |-> <<x, y>>, b |-> val,
                           ret |-> <<>>, panicked |-> FALSE]
    /\ UNCHANGED <<graphVars, solverVars, ioVars>>

\* ft.prefix_rectangle_sum(x, y)
PrefixRectangleSum ==
    /\ ~call.panicked
    /\ \E x \in 0 .. (Rows + 1), y \in 0 .. (Cols + 1) :
          call' = IF Query2dOutOfBounds(data, x, y)
                  THEN [op |-> "prefix_rectangle_sum", a |-> <<x, y>>,
                        b |-> 0, ret |-> <<>>, panicked |-> TRUE]
                  ELSE [op |-> "prefix_rectangle_sum", a |-> <<x, y>>,
                        b |-> 0,
                        ret |-> <<prefix_rectangle_sum(data, x, y)>>,
                        panicked |-> FALSE]
    /\ UNCHANGED <<data, arr, nops, graphVars, solverVars, ioVars>>

\* ft.rectangle_sum(x1, y1, x2, y2) on a rectangle of the grid,
\* 1 <= x1 <= x2 <= R and 1 <= y1 <= y2 <= C
RectangleSum ==
    /\ ~call.panicked
    /\ \E x1 \in 1 .. Rows, y1 \in 1 .. Cols :
          \E x2 \in x1 .. Rows, y2 \in y1 .. Cols :
             call' = [op |-> "rectangle_sum", a |-> <<x1, y1>>,
                      b |-> <<x2, y2>>,
                      ret |-> <<rectangle_sum(data, x1, y1, x2, y2)>>,
                      panicked |-> FALSE]
    /\ UNCHANGED <<data, arr, nops, graphVars, solverVars, ioVars>>

Next2d == AddValue2d \/ PrefixRectangleSum \/ RectangleSum

Spec2d == Init2d /\ [][Next2d]_vars

-----------------------------------------------------------------------------
(* The 2-D tree over an unsigned element type: specification Spec2dU.         *)
(* The values are kept 16 bits wide. Whether an overflowing - or + panics or  *)
(* wraps is fixed by the build (overflow checks on or off).                   *)

\* the width of the element type T = u16
UnsignedBits == 16
Modulus == 2 ^ UnsignedBits

\* a - b and a + b on T with the overflow checks off
WrappingSub(a, b) == (a - b) % Modulus
WrappingAdd(a, b) == (a + b) % Modulus

\* the values of the three operators of rectangle_sum, left to right, as
\* integers
RectangleSteps(d, x1, y1, x2, y2) ==
    LET s1 == prefix_rectangle_sum(d, x2, y2)
                 - prefix_rectangle_sum(d, x1 - 1, y2)
        s2 == s1 - prefix_rectangle_sum(d, x2, y1 - 1)
        s3 == s2 + prefix_rectangle_sum(d, x1 - 1, y1 - 1)
    IN  <<s1, s2, s3>>

\* an operator of rectangle_sum leaves the range of T
RectangleOverflows(d, x1, y1, x2, y2) ==
    \E i \in 1 .. 3 :
       \/ RectangleSteps(d, x1, y1, x2, y2)[i] < 0
       \/ RectangleSteps(d, x1, y1, x2, y2)[i] >= Modulus

\* rectangle_sum(x1, y1, x2, y2) on T = u16 for in-range arguments: the panic
\* of the first overflowing operator when the build checks overflow, the
\* wrapped value when it does not
rectangle_sum_unsigned(d, x1, y1, x2, y2, checks) ==
    IF checks /\ RectangleOverflows(d, x1, y1, x2, y2)
    THEN [ret |-> <<>>, panicked |-> TRUE]
    ELSE [ret |-> <<WrappingAdd(
                      WrappingSub(
                         WrappingSub(prefix_rectangle_sum(d, x2, y2),
                                     prefix_rectangle_sum(d, x1 - 1, y2)),
                         prefix_rectangle_sum(d, x2, y1 - 1)),
                      prefix_rectangle_sum(d, x1 - 1, y1 - 1))>>,
          panicked |-> FALSE]

\* ft.rectangle_sum(x1, y1, x2, y2) on a rectangle of the grid, in a build
\* with or without overflow checks
RectangleSumUnsigned ==
    /\ ~call.panicked
    /\ \E x1 \in 1 .. Rows, y1 \in 1 .. Cols, checks \in BOOLEAN :
          \E x2 \in x1 .. Rows, y2 \in y1 .. Cols :
             LET r == rectangle_sum_unsigned(data, x1, y1, x2, y2, checks)
             IN  call' = [op |-> "rectangle_sum", a |-> <<x1, y1>>,
                          b |-> <<x2, y2>>, ret |-> r.ret,
                          panicked |-> r.panicked]
    /\ UNCHANGED <<data, arr, nops, graphVars, solverVars, ioVars>>

Next2dU == AddValue2d \/ RectangleSumUnsigned

Spec2dU == Init2d /\ [][Next2dU]_vars

-----------------------------------------------------------------------------
(* dopecomp_graph *)

\* vec[i] of a 0-indexed Vec kept as a sequence
At(vec, i) == vec[i + 1]

\* vec[i] = x
SetAt(vec, i, x) == [vec EXCEPT ![i + 1] = x]

\* Graph::v() and Graph::e()
v == Len(nodes)
e == Len(edges)

NodeIds == 0 .. (v - 1)

\* a ^ b on usize
RECURSIVE Xor(_, _)
Xor(a, b) ==
    IF a = 0 THEN b
    ELSE IF b = 0 THEN a
    ELSE 2 * Xor(a \div 2, b \div 2) + ((a + b) % 2)

\* Edge::to. A usize edge is kept as <<dest>>, a (usize, usize) edge as <<a, b>>
to(edge, from) ==
    IF Len(edge) = 1 THEN edge[1] ELSE Xor(Xor(edge[1], edge[2]), from)

\* BidirectionalEdge::as_pair for (usize, usize)
as_pair(edge) == <<edge[1], edge[2]>>

\* the transf closures of the tests: |x| x for an undirected graph,
\* |x| x.1 for a directed one
transf(und, pair) == IF und THEN pair ELSE <<pair[2]>>

\* the fill loop of from_edges putting each id at the front of the lists
RECURSIVE FillAdjAtFront(_, _, _, _)
FillAdjAtFront(adj, input, id, und) ==
    IF id >= Len(input) THEN adj
    ELSE LET a == At(input, id)[1]
             b == At(input, id)[2]
             adj1 == SetAt(adj, a, <<id>> \o At(adj, a))
             adj2 == IF und THEN SetAt(adj1, b, <<id>> \o At(adj1, b))
                     ELSE adj1
         IN  FillAdjAtFront(adj2, input, id + 1, und)

\* the fill loop of from_edges listing an undirected self-loop once
RECURSIVE FillAdjLoopOnce(_, _, _, _)
FillAdjLoopOnce(adj, input, id, und) ==
    IF id >= Len(input) THEN adj
    ELSE LET a == as_pair(At(input, id))[1]
             b == as_pair(At(input, id))[2]
             adj1 == SetAt(adj, a, Append(At(adj, a), id))
             adj2 == IF und /\ b # a
                     THEN SetAt(adj1, b, Append(At(adj1, b), id))
                     ELSE adj1
         IN  FillAdjLoopOnce(adj2, input, id + 1, und)

\* the fill loop of from_edges: edges ids id.. appended to adj
RECURSIVE FillAdj(_, _, _, _)
FillAdj(adj, input, id, und) ==
    IF id >= Len(input) THEN adj
    ELSE LET a == as_pair(At(input, id))[1]
             b == as_pair(At(input, id))[2]
             adj1 == SetAt(adj, a, Append(At(adj, a), id))
             adj2 == IF und THEN SetAt(adj1, b, Append(At(adj1, b), id))
                     ELSE adj1
         IN  FillAdj(adj2, input, id + 1, und)

\* every list of at most MaxE edges over n nodes
EdgeLists(n) ==
    UNION {[1 .. k -> (0 .. (n - 1)) \X (0 .. (n - 1))] : k \in 0 .. MaxE}

NoSolver ==
    /\ cycle = FALSE /\ used_edge = <<>> /\ last_edge = <<>> /\ result = <<>>
    /\ stack = <<>> /\ dfs_calls = 0 /\ out = "pending"

EulerInit ==
    /\ data = new(0) /\ arr = new(0) /\ nops = 0 /\ call = NoCall
    /\ nodes = <<>> /\ edges = <<>> /\ adj_list = <<>> /\ undirected = FALSE
    /\ edgesIn = <<>>
    /\ pc = "new"
    /\ NoSolver
    /\ IoIdle

\* Graph::with_capacity(n, _, und)
WithCapacity ==
    /\ pc = "new"
    /\ \E n \in 0 .. MaxV, und \in BOOLEAN :
          /\ nodes' = [i \in 1 .. n |-> "unit"]
          /\ edges' = <<>>
          /\ adj_list' = [i \in 1 .. n |-> <<>>]
          /\ undirected' = und
          /\ edgesIn' = <<>>
    /\ pc' = "build"
    /\ UNCHANGED <<ioVars, fenVars, cycle, used_edge, last_edge, result, stack,
                   dfs_calls, out>>

\* Graph::from_edges(n, input, transf, und), the endpoints being nodes
FromEdges ==
    /\ pc = "new"
    /\ \E n \in 0 .. MaxV, und \in BOOLEAN :
          \E input \in EdgeLists(n) :
             /\ nodes' = [i \in 1 .. n |-> "unit"]
             /\ adj_list' = FillAdj([i \in 1 .. n |-> <<>>], input, 0, und)
             /\ edges' = [i \in 1 .. Len(input) |-> transf(und, input[i])]
             /\ undirected' = und
             /\ edgesIn' = input
    /\ pc' = "build"
    /\ UNCHANGED <<ioVars, fenVars, cycle, used_edge, last_edge, result, stack,
                   dfs_calls, out>>

\* graph.push_directed_edge(from, dest) on a directed Graph<(), usize>
PushDirectedEdge ==
    /\ pc = "build"
    /\ ~undirected
    /\ e < MaxE
    /\ \E from \in NodeIds, dest \in NodeIds :
          LET id == Len(edges)
          IN  /\ edges' = Append(edges, <<dest>>)
              /\ adj_list' = SetAt(adj_list, from, Append(At(adj_list, from), id))
              /\ edgesIn' = Append(edgesIn, <<from, dest>>)
    /\ UNCHANGED <<ioVars, fenVars, nodes, undirected, solverVars>>

\* graph.push_undirected_edge((a, b)) on an undirected Graph<(), (usize, usize)>
PushUndirectedEdge ==
    /\ pc = "build"
    /\ undirected
    /\ e < MaxE
    /\ \E a \in NodeIds, b \in NodeIds :
          LET id == Len(edges)
              adj1 == SetAt(adj_list, a, Append(At(adj_list, a), id))
          IN  /\ edges' = Append(edges, <<a, b>>)
              /\ adj_list' = SetAt(adj1, b, Append(At(adj1, b), id))
              /\ edgesIn' = Append(edgesIn, <<a, b>>)
    /\ UNCHANGED <<ioVars, fenVars, nodes, undirected, solverVars>>

\* E = (usize, usize): the edges pushed so far are pairs
PairEdges == \A i \in 1 .. Len(edges) : Len(edges[i]) = 2

\* graph.push_directed_edge(from, (a, b)) on a Graph<(), (usize, usize)>,
\* from being an endpoint; the method does not read the undirected flag
push_directed_edge ==
    /\ pc = "build"
    /\ PairEdges
    /\ e < MaxE
    /\ \E a \in NodeIds, b \in NodeIds :
          \E from \in {a, b} :
             LET id == Len(edges)
             IN  /\ edges' = Append(edges, <<a, b>>)
                 /\ adj_list' =
                        SetAt(adj_list, from, Append(At(adj_list, from), id))
                 /\ edgesIn' = Append(edgesIn, <<from, to(<<a, b>>, from)>>)
    /\ UNCHANGED <<ioVars, fenVars, nodes, undirected, solverVars>>

\* graph.push_undirected_edge((a, b)) on a Graph<(), (usize, usize)>;
\* the method does not read the undirected flag
push_undirected_edge ==
    /\ pc = "build"
    /\ PairEdges
    /\ e < MaxE
    /\ \E a \in NodeIds, b \in NodeIds :
          LET id == Len(edges)
              adj1 == SetAt(adj_list, a, Append(At(adj_list, a), id))
          IN  /\ edges' = Append(edges, <<a, b>>)
              /\ adj_list' = SetAt(adj1, b, Append(At(adj1, b), id))
              /\ edgesIn' = Append(edgesIn, <<a, b>>)
    /\ UNCHANGED <<ioVars, fenVars, nodes, undirected, solverVars>>

\* the graph programs: a construction followed by pushes
GraphNext ==
    \/ WithCapacity
    \/ FromEdges
    \/ push_directed_edge
    \/ push_undirected_edge

GraphSpec == EulerInit /\ [][GraphNext]_vars

-----------------------------------------------------------------------------
(* dopecomp_euler *)

SetMax(S) == CHOOSE x \in S : \A y \in S : y <= x

\* degree[node] after the counting loops of solve_eulerian
degree(node) ==
    Cardinality({p \in NodeIds \X (1 .. (2 * e)) :
                    /\ p[2] <= Len(At(adj_list, p[1]))
                    /\ to(At(edges, At(adj_list, p[1])[p[2]]), p[1]) = node})

\* the nodes the classification loop counts in cnt_even, cnt_pos, cnt_neg
EvenCounted(und) == {n \in NodeIds : und /\ degree(n) % 2 = 1}
PosCounted(und) ==
    {n \in NodeIds : ~und /\ degree(n) < Len(At(adj_list, n))}
NegCounted(und) ==
    {n \in NodeIds : ~und /\ degree(n) > Len(At(adj_list, n))}

\* start_node after the classification loop: the last node that set it
start_node(und) ==
    IF EvenCounted(und) \cup PosCounted(und) = {} THEN 0
    ELSE SetMax(EvenCounted(und) \cup PosCounted(und))

\* the feasibility test with the counts checked only when a cycle is asked for
InfeasibleCycleOnly(und, cyc, cnt_even, cnt_pos, cnt_neg) ==
    IF und
    THEN cyc /\ cnt_even > 0
    ELSE cyc /\ (cnt_pos > 0 \/ cnt_neg > 0)

\* the feasibility test applying the rule of a path to a cycle as well
InfeasiblePathRule(und, cyc, cnt_even, cnt_pos, cnt_neg) ==
    IF und
    THEN cnt_even > 2
    ELSE cnt_pos > 1 \/ cnt_neg > 1

\* the feasibility test: true when solve_eulerian returns None before any DFS
Infeasible(und, cyc, cnt_even, cnt_pos, cnt_neg) ==
    IF und
    THEN cnt_even > 2 \/ (cyc /\ cnt_even > 0)
    ELSE \/ cnt_pos > 1 \/ cnt_neg > 1
         \/ (cyc /\ (cnt_pos > 0 \/ cnt_neg > 0))

\* the length check accepting a result that is too short
LengthMismatchTooLongOnly(len, ne) == len > ne + 1

\* solver.result.len() != graph.e() + 1
LengthMismatch(len, ne) == len # ne + 1

\* the result of a directed graph returned in the order of the pushes
ReverseKept(s) == s

\* Vec::reverse
Reverse(s) == [i \in 1 .. Len(s) |-> s[Len(s) + 1 - i]]

\* eulerian_dfs recursing through an edge without flagging it
MarkUsedNever(used, id) == used

\* eulerian_dfs flagging every edge when it recurses through one
MarkUsedAll(used, id) == [i \in DOMAIN used |-> TRUE]

\* self.used_edge[id] = true
MarkUsed(used, id) == SetAt(used, id, TRUE)

\* the cursor of node moved on by two entries
AdvanceByTwo(le, node) == SetAt(le, node, At(le, node) + 2)

\* self.last_edge[node] += 1
Advance(le, node) == SetAt(le, node, At(le, node) + 1)

\* solve_eulerian(graph, graph.undirected, cyc) up to the first
\* eulerian_dfs(start_node) call
SolveStart ==
    /\ pc = "build"
    /\ \E cyc \in BOOLEAN :
          /\ cycle' = cyc
          /\ IF Infeasible(undirected, cyc,
                           Cardinality(EvenCounted(undirected)),
                           Cardinality(PosCounted(undirected)),
                           Cardinality(NegCounted(undirected)))
             THEN /\ pc' = "done"
                  /\ out' = "None"
                  /\ UNCHANGED <<used_edge, last_edge, result, stack, dfs_calls>>
             ELSE /\ pc' = "dfs"
                  /\ used_edge' = [i \in 1 .. e |-> FALSE]
                  /\ last_edge' = [i \in 1 .. v |-> 0]
                  /\ result' = <<>>
                  /\ stack' = <<start_node(undirected)>>
                  /\ dfs_calls' = 1
                  /\ out' = "pending"
    /\ UNCHANGED <<ioVars, fenVars, graphVars>>

\* one step of the innermost eulerian_dfs(node): an iteration of its while
\* loop up to the recursive call, or its exit (result.push, return, and the
\* caller's last_edge[node] += 1 after the call)
DfsStep ==
    /\ pc = "dfs"
    /\ stack # <<>>
    /\ LET node == stack[Len(stack)]
       IN  IF node \notin NodeIds
           THEN \* self.last_edge[node] indexes out of bounds
                /\ pc' = "done"
                /\ out' = "panic"
                /\ UNCHANGED <<used_edge, last_edge, result, stack, dfs_calls>>
           ELSE IF At(last_edge, node) < Len(At(adj_list, node))
           THEN LET cnt_edge == At(last_edge, node)
                    id == At(At(adj_list, node), cnt_edge)
                IN  IF ~At(used_edge, id)
                    THEN /\ used_edge' = MarkUsed(used_edge, id)
                         /\ stack' = Append(stack, to(At(edges, id), node))
                         /\ dfs_calls' = dfs_calls + 1
                         /\ UNCHANGED <<last_edge, result, pc, out>>
                    ELSE /\ last_edge' = Advance(last_edge, node)
                         /\ UNCHANGED <<used_edge, result, stack, dfs_calls,
                                        pc, out>>
           ELSE /\ result' = Append(result, node)
                /\ stack' = SubSeq(stack, 1, Len(stack) - 1)
                /\ last_edge' =
                      IF Len(stack) > 1
                      THEN Advance(last_edge, stack[Len(stack) - 1])
                      ELSE last_edge
                /\ UNCHANGED <<used_edge, dfs_calls, pc, out>>
    /\ UNCHANGED <<ioVars, fenVars, graphVars, cycle>>

\* the length check and the return of solve_eulerian
SolveFinish ==
    /\ pc = "dfs"
    /\ stack = <<>>
    /\ pc' = "done"
    /\ IF LengthMismatch(Len(result), e)
       THEN /\ out' = "None"
            /\ UNCHANGED result
       ELSE /\ out' = "Some"
            /\ result' = IF ~undirected THEN Reverse(result) ELSE result
    /\ UNCHANGED <<ioVars, fenVars, graphVars, cycle, used_edge, last_edge, stack,
                   dfs_calls>>

EulerNext ==
    \/ WithCapacity
    \/ FromEdges
    \/ PushDirectedEdge
    \/ PushUndirectedEdge
    \/ SolveStart
    \/ DfsStep
    \/ SolveFinish

EulerSpec == EulerInit /\ [][EulerNext]_vars

-----------------------------------------------------------------------------
(* dopecomp_io, InParser: specification InSpec.                               *)
(* A byte is a one-character string. The source hands its stream to the       *)
(* BufReader in chunks; which chunks is fixed when the parser is built.       *)

\* the bytes of the inputs: the two delimiters, a letter, a digit, the sign
Bytes == {" ", "\n", "a", "1", "-"}

\* b' ' and b'\n', the bytes skip_spaces skips and get_token stops at
Spaces == {" ", "\n"}

\* the white space str::trim removes
White == {" ", "\n", "\t", "\r"}

Digits == <<"0", "1", "2", "3", "4", "5", "6", "7", "8", "9">>

\* u8::is_ascii_digit
is_ascii_digit(c) == \E i \in 1 .. 10 : Digits[i] = c

\* byte - b'0'
DigitVal(c) == (CHOOSE i \in 1 .. 10 : Digits[i] = c) - 1

\* every input of at most MaxInput bytes
Inputs == UNION {[1 .. k -> Bytes] : k \in 0 .. MaxInput}

\* every way the source can cut stream s into non-empty reads
RECURSIVE Chunkings(_)
Chunkings(s) ==
    IF s = <<>> THEN {<<>>}
    ELSE UNION {{<<SubSeq(s, 1, k)>> \o r :
                    r \in Chunkings(SubSeq(s, k + 1, Len(s)))} :
                k \in 1 .. Len(s)}

\* reader.fill_buf() once the buffer was consumed: the next chunk, or nothing
\* at the end of the stream; Rest is what the source has left after it
fill_buf(src) == IF src = <<>> THEN <<>> ELSE Head(src)
Rest(src) == IF src = <<>> THEN <<>> ELSE Tail(src)

\* the parser as one value
Parser ==
    [reader |-> reader, buffer |-> buffer, cursor |-> cursor,
     eof_flag |-> eof_flag]

\* InParser::new: one fill_buf, eof_flag false whatever it returned
InParserNew(src) ==
    [reader |-> Rest(src), buffer |-> fill_buf(src), cursor |-> 0,
     eof_flag |-> FALSE]

\* the test of get_current_byte: true when it panics "Outside of buffer"
OutsideBuffer(p) == p.cursor >= Len(p.buffer)

\* get_current_byte inside the buffer
get_current_byte(p) == At(p.buffer, p.cursor)

\* advance_cursor
advance_cursor(p) ==
    IF p.cursor + 1 >= Len(p.buffer)
    THEN [reader |-> Rest(p.reader), buffer |-> fill_buf(p.reader),
          cursor |-> 0, eof_flag |-> fill_buf(p.reader) = <<>>]
    ELSE [p EXCEPT !.cursor = @ + 1]

\* skip_spaces: the parser it leaves, or the panic of get_current_byte
RECURSIVE skip_spaces(_)
skip_spaces(p) ==
    IF p.eof_flag THEN [p |-> p, panic |-> FALSE]
    ELSE IF OutsideBuffer(p) THEN [p |-> p, panic |-> TRUE]
    ELSE IF get_current_byte(p) \in Spaces
         THEN skip_spaces(advance_cursor(p))
         ELSE [p |-> p, panic |-> FALSE]

\* the loop of get_token stopping at a space only
RECURSIVE TokenLoopSpaceOnly(_, _)
TokenLoopSpaceOnly(p, token_buf) ==
    IF p.eof_flag THEN [p |-> p, token |-> token_buf, panic |-> FALSE]
    ELSE IF OutsideBuffer(p)
         THEN [p |-> p, token |-> token_buf, panic |-> TRUE]
    ELSE IF get_current_byte(p) # " "
         THEN TokenLoopSpaceOnly(advance_cursor(p),
                                 Append(token_buf, get_current_byte(p)))
         ELSE [p |-> p, token |-> token_buf, panic |-> FALSE]

\* the while loop of get_token
RECURSIVE TokenLoop(_, _)
TokenLoop(p, token_buf) ==
    IF p.eof_flag THEN [p |-> p, token |-> token_buf, panic |-> FALSE]
    ELSE IF OutsideBuffer(p)
         THEN [p |-> p, token |-> token_buf, panic |-> TRUE]
    ELSE IF get_current_byte(p) \notin Spaces
         THEN TokenLoop(advance_cursor(p),
                        Append(token_buf, get_current_byte(p)))
         ELSE [p |-> p, token |-> token_buf, panic |-> FALSE]

\* get_token
get_token(p) ==
    LET s == skip_spaces(p)
    IN  IF s.panic THEN [p |-> s.p, token |-> <<>>, panic |-> TRUE]
        ELSE TokenLoop(s.p, <<>>)

\* str::trim
RECURSIVE Trim(_)
Trim(s) ==
    IF s = <<>> THEN s
    ELSE IF Head(s) \in White THEN Trim(Tail(s))
    ELSE IF s[Len(s)] \in White THEN Trim(SubSeq(s, 1, Len(s) - 1))
    ELSE s

\* read_string: the token, and the string made of it (the bytes are ASCII,
\* so from_utf8 succeeds)
read_string(p) ==
    LET t == get_token(p)
    IN  [p |-> t.p, token |-> t.token, str |-> Trim(t.token),
         panic |-> t.panic]

\* i32::from_str succeeds: an optional sign, then one digit or more
WellFormedInteger(s) ==
    LET body == IF s # <<>> /\ s[1] \in {"-", "+"} THEN Tail(s) ELSE s
    IN  body # <<>> /\ \A i \in 1 .. Len(body) : is_ascii_digit(body[i])

\* the value of a string of digits after the value acc
RECURSIVE DigitsValue(_, _)
DigitsValue(s, acc) ==
    IF s = <<>> THEN acc
    ELSE DigitsValue(Tail(s), acc * 10 + DigitVal(Head(s)))

\* i32::from_str on a well-formed string
parse(s) ==
    IF s[1] = "-" THEN 0 - DigitsValue(Tail(s), 0)
    ELSE IF s[1] = "+" THEN DigitsValue(Tail(s), 0)
    ELSE DigitsValue(s, 0)

\* read::<i32>: read_string().parse().unwrap()
read(p) ==
    LET r == read_string(p)
    IN  IF r.panic \/ ~WellFormedInteger(r.str)
        THEN [p |-> r.p, token |-> r.token, val |-> 0, panic |-> TRUE]
        ELSE [p |-> r.p, token |-> r.token, val |-> parse(r.str),
              panic |-> FALSE]

\* the digit loop of read_number
RECURSIVE DigitLoop(_, _)
DigitLoop(p, nr) ==
    IF p.eof_flag THEN [p |-> p, nr |-> nr, panic |-> FALSE]
    ELSE IF OutsideBuffer(p) THEN [p |-> p, nr |-> nr, panic |-> TRUE]
    ELSE IF is_ascii_digit(get_current_byte(p))
         THEN DigitLoop(advance_cursor(p),
                        nr * 10 + DigitVal(get_current_byte(p)))
         ELSE [p |-> p, nr |-> nr, panic |-> FALSE]

\* read_number: the sign test reads the current byte without testing eof_flag
read_number(p) ==
    LET s == skip_spaces(p)
    IN  IF s.panic \/ OutsideBuffer(s.p)
        THEN [p |-> s.p, val |-> 0, panic |-> TRUE]
        ELSE LET neg == get_current_byte(s.p) = "-"
                 sgn == IF neg THEN 0 - 1 ELSE 1
                 d == DigitLoop(IF neg THEN advance_cursor(s.p) ELSE s.p, 0)
             IN  [p |-> d.p, val |-> d.nr * sgn, panic |-> d.panic]

\* the next token of the input at a parser: what a token read there returns
NextToken(p) == get_token(p).token

\* InParser::new(source), the tree and the graph programs off
InInit ==
    /\ \E s \in Inputs : \E src \in Chunkings(s) :
          /\ stream = s
          /\ reader = InParserNew(src).reader
          /\ buffer = InParserNew(src).buffer
          /\ cursor = InParserNew(src).cursor
          /\ eof_flag = InParserNew(src).eof_flag
    /\ inCall = NoRead /\ trace = <<>>
    /\ writer = <<>> /\ sink = <<>> /\ shortSink = FALSE /\ written = <<>>
    /\ wpc = "off"
    /\ data = new(0) /\ arr = new(0) /\ nops = 0 /\ call = NoCall
    /\ FenIdle

\* the parser after a call, and the call in the trace when it moved the parser
Moved(op, p, token) ==
    /\ reader' = p.reader /\ buffer' = p.buffer
    /\ cursor' = p.cursor /\ eof_flag' = p.eof_flag
    /\ trace' = IF p = Parser THEN trace
                ELSE Append(trace, [op |-> op, token |-> token])

\* parser.read_string()
ReadString ==
    /\ ~inCall.panicked
    /\ LET r == read_string(Parser)
       IN  /\ inCall' = [op |-> "read_string", next |-> NextToken(Parser),
                         ret |-> IF r.panic THEN <<>> ELSE <<r.str>>,
                         panicked |-> r.panic]
           /\ Moved("read_string", r.p, r.token)
    /\ UNCHANGED <<fenVars, graphVars, solverVars, stream, outVars>>

\* parser.read::<i32>()
Read ==
    /\ ~inCall.panicked
    /\ LET r == read(Parser)
       IN  /\ inCall' = [op |-> "read", next |-> NextToken(Parser),
                         ret |-> IF r.panic THEN <<>> ELSE <<r.val>>,
                         panicked |-> r.panic]
           /\ Moved("read", r.p, r.token)
    /\ UNCHANGED <<fenVars, graphVars, solverVars, stream, outVars>>

\* parser.read_number::<i64>()
ReadNumber ==
    /\ ~inCall.panicked
    /\ LET r == read_number(Parser)
       IN  /\ inCall' = [op |-> "read_number", next |-> NextToken(Parser),
                         ret |-> IF r.panic THEN <<>> ELSE <<r.val>>,
                         panicked |-> r.panic]
           /\ Moved("read_number", r.p, <<>>)
    /\ UNCHANGED <<fenVars, graphVars, solverVars, stream, outVars>>

\* parser.advance_cursor()
AdvanceCursor ==
    /\ ~inCall.panicked
    /\ inCall' = [op |-> "advance_cursor", next |-> NextToken(Parser),
                  ret |-> <<>>, panicked |-> FALSE]
    /\ Moved("advance_cursor", advance_cursor(Parser), <<>>)
    /\ UNCHANGED <<fenVars, graphVars, solverVars, stream, outVars>>

InNext == ReadString \/ Read \/ ReadNumber \/ AdvanceCursor

InSpec == InInit /\ [][InNext]_vars

-----------------------------------------------------------------------------
(* dopecomp_io, OutParser: specification OutSpec.                             *)
(* The BufWriter is the standard library's: a write shorter than the spare    *)
(* room is buffered; otherwise the buffer is flushed when the bytes do not    *)
(* fit, and bytes as long as the whole buffer go to the sink in one           *)
(* Write::write call, which may take only some of them and says how many.     *)

\* the capacity of BufWriter::new (8192 in the standard library), scaled down
BufCap == 2

\* the integers and the strings written
IntValues == {7, 42, 0 - 3, 123}
StrValues == {<<"\n">>, <<" ", "\n">>}

\* the decimal digits of a natural number
RECURSIVE DigitsOf(_)
DigitsOf(n) ==
    IF n < 10 THEN <<Digits[n + 1]>>
    ELSE Append(DigitsOf(n \div 10), Digits[(n % 10) + 1])

\* val.to_string() of an integer
to_string(n) ==
    IF n < 0 THEN <<"-">> \o DigitsOf(0 - n) ELSE DigitsOf(n)

\* val.to_string().as_bytes() of every value; a string is its own text
Texts == {to_string(n) : n \in IntValues} \cup StrValues

\* how many of the len bytes offered one Write::write of the sink may take
Taken(len) == IF shortSink THEN 1 .. len ELSE {len}

\* OutParser::new(sink): an empty BufWriter over an empty sink of either kind
OutInit ==
    /\ writer = <<>> /\ sink = <<>> /\ written = <<>> /\ wpc = "open"
    /\ shortSink \in BOOLEAN
    /\ stream = <<>> /\ reader = <<>> /\ buffer = <<>> /\ cursor = 0
    /\ eof_flag = FALSE /\ inCall = NoRead /\ trace = <<>>
    /\ data = new(0) /\ arr = new(0) /\ nops = 0 /\ call = NoCall
    /\ FenIdle

\* out.write(val): self.writer.write(bytes).expect(..), the count dropped
Write ==
    /\ wpc = "open"
    /\ \E text \in Texts :
          LET spare == BufCap - Len(writer)
              flush == Len(text) > spare
              sink1 == IF flush THEN sink \o writer ELSE sink
              writer1 == IF flush THEN <<>> ELSE writer
          IN  /\ Len(written) + Len(text) <= MaxOut
              /\ written' = written \o text
              /\ IF Len(text) < spare
                 THEN writer' = writer \o text /\ sink' = sink
                 ELSE IF Len(text) >= BufCap
                      THEN \E k \in Taken(Len(text)) :
                              /\ sink' = sink1 \o SubSeq(text, 1, k)
                              /\ writer' = writer1
                      ELSE writer' = writer1 \o text /\ sink' = sink1
    /\ UNCHANGED <<fenVars, graphVars, solverVars, inVars, shortSink, wpc>>

\* the OutParser goes out of scope: BufWriter's drop flushes the buffer
Drop ==
    /\ wpc = "open"
    /\ sink' = sink \o writer
    /\ writer' = <<>>
    /\ wpc' = "dropped"
    /\ UNCHANGED <<fenVars, graphVars, solverVars, inVars, shortSink, written>>

OutNext == Write \/ Drop

OutSpec == OutInit /\ [][OutNext]_vars

-----------------------------------------------------------------------------
(* The loops of dopecomp_fenwick and the recursion of dopecomp_euler, one     *)
(* iteration per step: specification TermSpec. call holds the running loop:   *)
(* op names it, a is pos, b is val (update) or the level l (bin_search), ret  *)
(* is <<res>> (query) or <<sum, k>> (bin_search).                             *)

\* the values added and the thresholds k of the step-wise calls
WalkDeltas == {1}
WalkThresholds == 0 .. 1

\* no loop of the Fenwick tree is running
WalkIdle == call.op \in {"new", "update_ret", "query_ret", "bin_search_ret"}

\* the for loop of bin_search never leaving its level
SameLevel(l) == l

\* the level after l in (0..30).rev()
NextLevel(l) == l - 1

\* ft.update(pos, |e| *e = *e + val) up to its while loop
UpdateCall ==
    /\ pc = "off"
    /\ WalkIdle
    /\ ~call.panicked
    /\ nops < MaxOps
    /\ \E pos \in 0 .. DataLen(data), val \in WalkDeltas :
          IF UpdateOutOfBounds(data, pos)
          THEN /\ call' = [op |-> "update_ret", a |-> pos, b |-> val,
                           ret |-> <<>>, panicked |-> TRUE]
               /\ UNCHANGED <<arr, nops>>
          ELSE /\ call' = [op |-> "update", a |-> pos, b |-> val,
                           ret |-> <<>>, panicked |-> FALSE]
               /\ arr' = [arr EXCEPT ![pos] = @ + val]
               /\ nops' = nops + 1
    /\ UNCHANGED <<data, graphVars, solverVars, ioVars>>

\* one test of the while loop of update: an iteration, or the return
UpdateStep ==
    /\ call.op = "update"
    /\ IF call.a < DataLen(data)
       THEN /\ data' = [data EXCEPT ![call.a] = @ + call.b]
            /\ call' = [call EXCEPT !.a = @ + lsb(@)]
       ELSE /\ call' = [call EXCEPT !.op = "update_ret"]
            /\ UNCHANGED data
    /\ UNCHANGED <<arr, nops, graphVars, solverVars, ioVars>>

\* ft.query(pos, 0, |s, e| s + *e) up to its while loop
QueryCall ==
    /\ pc = "off"
    /\ WalkIdle
    /\ ~call.panicked
    /\ \E pos \in 0 .. DataLen(data) :
          call' = IF QueryOutOfBounds(data, pos)
                  THEN [op |-> "query_ret", a |-> pos, b |-> 0,
                        ret |-> <<>>, panicked |-> TRUE]
                  ELSE [op |-> "query", a |-> pos, b |-> 0,
                        ret |-> <<0>>, panicked |-> FALSE]
    /\ UNCHANGED <<data, arr, nops, graphVars, solverVars, ioVars>>

\* one test of the while loop of query: an iteration, or the return of res
QueryStep ==
    /\ call.op = "query"
    /\ call' = IF call.a > 0
               THEN [call EXCEPT !.ret = <<@[1] + data[call.a]>>,
                                 !.a = @ - lsb(@)]
               ELSE [call EXCEPT !.op = "query_ret"]
    /\ UNCHANGED <<data, arr, nops, graphVars, solverVars, ioVars>>

\* ft.bin_search_sum(|val| val <= k) up to its for loop
BinSearchCall ==
    /\ pc = "off"
    /\ WalkIdle
    /\ ~call.panicked
    /\ \E k \in WalkThresholds :
          call' = [op |-> "bin_search", a |-> 0, b |-> BinSearchLevels - 1,
                   ret |-> <<0, k>>, panicked |-> FALSE]
    /\ UNCHANGED <<data, arr, nops, graphVars, solverVars, ioVars>>

\* one level of the for loop of bin_search, or the return of (pos, pos + 1)
BinSearchStep ==
    /\ call.op = "bin_search"
    /\ LET l == call.b
           pos == call.a
           sum == call.ret[1]
           k == call.ret[2]
       IN  IF l >= 0
           THEN IF pos + 2 ^ l < DataLen(data)
                THEN LET new_pos == pos + 2 ^ l
                         new_sum == sum + data[new_pos]
                     IN  IF eval(k, new_sum)
                         THEN call' = [call EXCEPT !.a = new_pos,
                                                   !.b = NextLevel(l),
                                                   !.ret = <<new_sum, k>>]
                         ELSE call' = [call EXCEPT !.b = NextLevel(l)]
                ELSE call' = [call EXCEPT !.b = NextLevel(l)]
           ELSE call' = [call EXCEPT !.op = "bin_search_ret", !.b = 0,
                                     !.ret = <<pos, pos + 1>>]
    /\ UNCHANGED <<data, arr, nops, graphVars, solverVars, ioVars>>

WalkNext ==
    \/ UpdateCall
    \/ UpdateStep
    \/ QueryCall
    \/ QueryStep
    \/ BinSearchCall
    \/ BinSearchStep

\* a program of Fenwick tree calls, or one that builds a graph and asks for
\* an Eulerian sequence
TermInit == Init \/ EulerInit

TermNext == WalkNext \/ EulerNext

\* a call that has started keeps running: the thread executing it takes the
\* next step of the loop or of the recursion whenever there is one
TermSpec ==
    /\ TermInit
    /\ [][TermNext]_vars
    /\ WF_vars(UpdateStep)
    /\ WF_vars(QueryStep)
    /\ WF_vars(BinSearchStep)
    /\ WF_vars(DfsStep)
    /\ WF_vars(SolveFinish)

-----------------------------------------------------------------------------
(* bin_search on trees of a capacity near 2^29 and 2^30: specification        *)
(* LargeSpec. The tree is the one of n ones, data[i] = lsb(i); a call names   *)
(* its tree by the capacity in call.b, the entries being computed on demand.  *)

\* the data of FenwickTree::new(n) after add_value(i, 1) for every i in 1..=n
OnesTree(n) == [i \in 0 .. n |-> lsb(i)]

\* 1 << 30, one more than the largest pos the 30 levels can add up to
LevelCap == 2 ^ BinSearchLevels

\* the for loop of bin_search on a tree given by its entries d and its
\* data.len() len, levels l, l-1, .., 0 still to go
RECURSIVE BinSearchLoopLen(_, _, _, _, _, _)
BinSearchLoopLen(d, len, l, pos, sum, k) ==
    IF l < 0 THEN <<pos, pos + 1>>
    ELSE IF pos + 2 ^ l < len
         THEN LET new_pos == pos + 2 ^ l
                  new_sum == sum + d[new_pos]
              IN  IF eval(k, new_sum)
                  THEN BinSearchLoopLen(d, len, l - 1, new_pos, new_sum, k)
                  ELSE BinSearchLoopLen(d, len, l - 1, pos, sum, k)
         ELSE BinSearchLoopLen(d, len, l - 1, pos, sum, k)

\* bin_search_sum(|val| val <= k) on the tree of n ones
bin_search_ones(n, k) ==
    BinSearchLoopLen(OnesTree(n), n + 1, BinSearchLevels - 1, 0, 0, k)

\* small capacities, and capacities around 2^29 and 2^30
LargeCapacities ==
    (0 .. MaxN)
        \cup {LevelCap \div 2 - 1, LevelCap \div 2, LevelCap \div 2 + 1}
        \cup {LevelCap - 1, LevelCap, LevelCap + 1, LevelCap + LevelCap \div 2}

\* the arguments tried on a tree of capacity n: near 0, near 2^29, near 2^30
\* and near n
NearEnds(n) ==
    {x \in {j : j \in 0 .. MaxN} \cup {n - j : j \in 0 .. MaxN}
           \cup {LevelCap - 1, LevelCap, LevelCap \div 2} : 0 <= x /\ x <= n}

LargeInit ==
    /\ data = new(0) /\ arr = new(0)
    /\ nops = 0
    /\ call = NoCall
    /\ FenIdle
    /\ IoIdle

\* ft.bin_search_sum(|val| val <= k) on the tree of n ones
BinSearchOnes ==
    /\ nops < MaxOps
    /\ \E n \in LargeCapacities :
          \E k \in NearEnds(n) :
             call' = [op |-> "bin_search_sum", a |-> k, b |-> n,
                      ret |-> bin_search_ones(n, k),
                      panicked |-> FALSE]
    /\ nops' = nops + 1
    /\ UNCHANGED <<data, arr, graphVars, solverVars, ioVars>>

\* ft.prefix_sum(pos) on the tree of n ones
PrefixSumOnes ==
    /\ nops < MaxOps
    /\ \E n \in LargeCapacities :
          \E pos \in NearEnds(n) :
             call' = [op |-> "prefix_sum", a |-> pos, b |-> n,
                      ret |-> <<prefix_sum(OnesTree(n), pos)>>,
                      panicked |-> FALSE]
    /\ nops' = nops + 1
    /\ UNCHANGED <<data, arr, graphVars, solverVars, ioVars>>

LargeNext == BinSearchOnes \/ PrefixSumOnes

LargeSpec == LargeInit /\ [][LargeNext]_vars

-----------------------------------------------------------------------------
(* Properties of the Fenwick tree, checked under Spec *)

\* the tree's capacity n
Capacity == DataLen(data) - 1

\* the reference: v[lo] + .. + v[hi] by a linear scan of the naive array
RECURSIVE NaiveSum(_, _, _)
NaiveSum(xs, lo, hi) ==
    IF hi < lo THEN 0 ELSE NaiveSum(xs, lo, hi - 1) + xs[hi]

\* the reference for bin_search_sum: the largest position whose prefix sum
\* satisfies the predicate, found by a linear scan (0 when none does)
RECURSIVE LinearScan(_, _, _)
LinearScan(xs, k, p) ==
    IF p = 0 THEN 0
    ELSE IF eval(k, NaiveSum(xs, 1, p)) THEN p
    ELSE LinearScan(xs, k, p - 1)

NonDecreasingPrefixSums == \A i \in 1 .. Capacity : arr[i] >= 0

C2_RangeSumIsNaiveRange ==
    /\ \A a \in 1 .. Capacity : \A b \in a .. Capacity :
          /\ range_sum(data, a, b) = NaiveSum(arr, a, b)
          /\ range_sum(data, a, b)
                = prefix_sum(data, b) - prefix_sum(data, a - 1)
    /\ (call.op = "range_sum" /\ ~call.panicked /\ call.a <= call.b)
          => call.ret = <<NaiveSum(arr, call.a, call.b)>>

\* C2 witness: a range_sum call over an inner range returned a non-zero sum
\* while a value lies just before the range
C2_Witness ==
    /\ call.op = "range_sum" /\ ~call.panicked
    /\ 1 < call.a /\ call.a < call.b /\ call.b < Capacity
    /\ arr[call.a - 1] # 0
    /\ call.ret # <<0>>

\* C3: every node data[i], 1 <= i <= n, is the sum of the underlying array
\* over (i - lsb(i), i], and data[0] keeps its default value
C3_NodeCoversItsRange ==
    /\ \A i \in 1 .. Capacity : data[i] = NaiveSum(arr, i - lsb(i) + 1, i)
    /\ data[0] = 0

\* C3 witness: updates reached a node that covers more than one position
C3_Witness ==
    /\ nops >= 2
    /\ Capacity >= 4
    /\ arr[2] # 0 /\ arr[3] # 0
    /\ data[4] = arr[2] + arr[3] /\ data[4] # 0 /\ data[3] # data[4]

\* C4: with non-decreasing prefix sums and a predicate val <= k (true on
\* small prefixes, false on large ones), bin_search_sum returns (x, x + 1)
\* for the x a linear scan finds: the largest position in 0..=n whose prefix
\* sum satisfies the predicate, n when all do, 0 when no non-empty one does
C4_BinSearchIsLinearScan ==
    NonDecreasingPrefixSums =>
        /\ \A k \in Thresholds :
              LET x == LinearScan(arr, k, Capacity)
              IN  bin_search_sum(data, k) = <<x, x + 1>>
        /\ call.op = "bin_search_sum"
              => call.ret = <<LinearScan(arr, call.a, Capacity),
                              LinearScan(arr, call.a, Capacity) + 1>>

\* C4 witness: a search over growing prefix sums stopped strictly inside
C4_Witness ==
    /\ call.op = "bin_search_sum"
    /\ NonDecreasingPrefixSums
    /\ nops >= 2
    /\ Capacity >= 4
    /\ call.ret = <<3, 4>>
    /\ eval(call.a, NaiveSum(arr, 1, 3)) /\ ~eval(call.a, NaiveSum(arr, 1, 4))
    /\ NaiveSum(arr, 1, 2) < NaiveSum(arr, 1, 3)

\* C10: an update at pos = 0 or pos > n fails with an out-of-range error
\* and leaves the tree's data as it was
C10_UpdateOutOfRangeFails ==
    [][(call'.op = "add_value" /\ (call'.a = 0 \/ call'.a > Capacity))
          => (call'.panicked /\ data' = data)]_vars

\* C10 witness: a tree holding values rejected an update past its capacity
C10_Witness ==
    /\ call.op = "add_value" /\ call.panicked
    /\ call.a > Capacity
    /\ nops >= 1 /\ \E i \in 1 .. Capacity : data[i] # 0

-----------------------------------------------------------------------------
(* Properties of the 2-D Fenwick tree, checked under Spec2d *)

\* the sum of the grid's cells (i, j), x1 <= i <= x2 and y1 <= j <= y2
RECURSIVE NaiveRectSum(_, _, _, _, _)
NaiveRectSum(g, x1, y1, x2, y2) ==
    IF x1 > x2 THEN 0
    ELSE NaiveSum(g[x2], y1, y2) + NaiveRectSum(g, x1, y1, x2 - 1, y2)

\* C13: in a 2-D tree of R rows of inner capacity C, after any add_value_2d
\* calls prefix_rectangle_sum(x, y) is the sum of the values added at the
\* cells (i <= x, j <= y), and the query leaves the tree unchanged
C13_PrefixRectangleSumIsNaive ==
    /\ [](/\ \A x \in 0 .. Rows, y \in 0 .. Cols :
               prefix_rectangle_sum(data, x, y) = NaiveRectSum(arr, 1, 1, x, y)
          /\ (call.op = "prefix_rectangle_sum" /\ ~call.panicked) =>
               call.ret = <<NaiveRectSum(arr, 1, 1, call.a[1], call.a[2])>>)
    /\ [][call'.op = "prefix_rectangle_sum" => data' = data]_vars

\* C13 witness: a prefix rectangle holding one of two added cells was summed
C13_Witness ==
    /\ call.op = "prefix_rectangle_sum" /\ ~call.panicked
    /\ nops = 2
    /\ call.a[1] \in 2 .. Rows /\ call.a[2] \in 1 .. Cols
    /\ call.ret[1] # 0
    /\ call.ret[1] # NaiveRectSum(arr, 1, 1, Rows, Cols)

\* C14: rectangle_sum(x1, y1, x2, y2) is the sum of the values in the
\* rectangle, and is the inclusion-exclusion of four prefix rectangle sums
C14_RectangleSumIsNaive ==
    /\ \A x1 \in 1 .. Rows, y1 \in 1 .. Cols :
          \A x2 \in x1 .. Rows, y2 \in y1 .. Cols :
             rectangle_sum(data, x1, y1, x2, y2)
                = NaiveRectSum(arr, x1, y1, x2, y2)
    /\ call.op = "rectangle_sum" =>
          /\ call.ret = <<NaiveRectSum(arr, call.a[1], call.a[2],
                                       call.b[1], call.b[2])>>
          /\ call.ret[1] =
                NaiveRectSum(arr, 1, 1, call.b[1], call.b[2])
                  - NaiveRectSum(arr, 1, 1, call.a[1] - 1, call.b[2])
                  - NaiveRectSum(arr, 1, 1, call.b[1], call.a[2] - 1)
                  + NaiveRectSum(arr, 1, 1, call.a[1] - 1, call.a[2] - 1)

\* C14 witness: a rectangle away from the origin was summed, with a value at
\* the cell before its corner, which the inclusion-exclusion adds back
C14_Witness ==
    /\ call.op = "rectangle_sum"
    /\ call.a = <<2, 2>>
    /\ arr[1][1] # 0
    /\ call.ret[1] # 0

-----------------------------------------------------------------------------
(* Properties of the graph container, checked under GraphSpec *)

\* how often edge id occurs in the adjacency lists
Occurrences(id) ==
    LET RECURSIVE Sum(_)
        Sum(n) == IF n = 0 THEN 0
                  ELSE Cardinality({i \in 1 .. Len(adj_list[n]) :
                                       adj_list[n][i] = id}) + Sum(n - 1)
    IN  Sum(Len(adj_list))

\* C15: in every graph built by from_edges or with_capacity and any pushes,
\* every edge id in 0 .. e()-1 appears in the adjacency lists exactly once
\* when undirected is false and exactly twice when it is true, and no other
\* id appears
C15_EdgeIdsOnceOrTwiceByFlag ==
    /\ \A id \in 0 .. (e - 1) :
          Occurrences(id) = (IF undirected THEN 2 ELSE 1)
    /\ \A n \in 1 .. Len(adj_list) : \A i \in 1 .. Len(adj_list[n]) :
          adj_list[n][i] \in 0 .. (e - 1)

\* the ids of the edges input[k..] that from_edges lists for node n: an edge
\* at its first endpoint, an undirected edge at its second endpoint as well
RECURSIVE InputOrder(_, _, _, _)
InputOrder(input, n, und, k) ==
    IF k >= Len(input) THEN <<>>
    ELSE (IF At(input, k)[1] = n THEN <<k>> ELSE <<>>)
           \o (IF und /\ At(input, k)[2] = n THEN <<k>> ELSE <<>>)
           \o InputOrder(input, n, und, k + 1)

\* C16: after from_edges every node's adjacency list holds the ids of the
\* edges listed for that node in input order (an undirected self-loop twice
\* in a row), and edge id k is the k-th input edge mapped through transf
C16_FromEdgesKeepsInputOrder ==
    [][pc = "new" =>
          /\ \A n \in 0 .. (Len(nodes') - 1) :
                At(adj_list', n) = InputOrder(edgesIn', n, undirected', 0)
          /\ Len(edges') = Len(edgesIn')
          /\ \A k \in 0 .. (Len(edgesIn') - 1) :
                At(edges', k) = transf(undirected', At(edgesIn', k))]_vars

\* C16 witness: from_edges built an undirected graph whose node 1 lists an
\* edge, then a self-loop twice in a row
C16_Witness ==
    /\ pc = "build" /\ undirected
    /\ edgesIn = <<<<0, 1>>, <<1, 1>>>>
    /\ At(adj_list, 1) = <<0, 1, 1>>

-----------------------------------------------------------------------------
(* Properties of the input parser, checked under InSpec *)

\* the maximal runs of bytes of s[i..] that are neither space nor newline,
\* run being the run open at i
RECURSIVE RunsFrom(_, _, _)
RunsFrom(s, i, run) ==
    IF i > Len(s) THEN (IF run = <<>> THEN <<>> ELSE <<run>>)
    ELSE IF s[i] \in Spaces
         THEN (IF run = <<>> THEN <<>> ELSE <<run>>) \o RunsFrom(s, i + 1, <<>>)
         ELSE RunsFrom(s, i + 1, Append(run, s[i]))

Runs(s) == RunsFrom(s, 1, <<>>)

IsToken(t) == t # <<>>

\* the tokens the token reads made so far have got, in order
TokensRead ==
    SelectSeq([i \in 1 .. Len(trace) |-> trace[i].token], IsToken)

\* only token reads have moved the parser
OnlyTokenReads ==
    \A i \in 1 .. Len(trace) : trace[i].op \in {"read_string", "read"}

Consumed == reader = <<>> /\ cursor >= Len(buffer)

\* C18: end of input is a terminal state that can be told: for every input,
\* the empty one included, once all bytes are consumed eof_flag is set, it
\* stays set under every further operation, and a token read there yields no
\* token rather than reading outside the buffer
C18_EndOfInputIsTerminal ==
    /\ [](/\ (inCall.op # "new" /\ Consumed) => eof_flag
          /\ inCall.op = "read_string" => ~inCall.panicked)
    /\ [][eof_flag => eof_flag']_vars

\* C19: a numeric read (read::<i32> or read_number) whose next token is not a
\* well-formed integer ends in a fatal parse error, never in a number
C19_MalformedNumberIsFatal ==
    (/\ inCall.op \in {"read", "read_number"}
     /\ ~WellFormedInteger(inCall.next))
        => (inCall.panicked /\ inCall.ret = <<>>)

-----------------------------------------------------------------------------
(* Properties of the output writer, checked under OutSpec *)

\* C20: after any write calls and the writer going out of scope, the sink
\* holds exactly the textual forms of the written values, concatenated in
\* call order, nothing lost or duplicated, for every sink and value length
C20_SinkHoldsAllWritten ==
    wpc = "dropped" => sink = written

-----------------------------------------------------------------------------
(* Properties of the Eulerian solver, checked under EulerSpec *)

\* degrees as the edge list defines them: an edge (a, b) leaves a and enters b
OutDeg(n) == Cardinality({i \in 1 .. Len(edgesIn) : edgesIn[i][1] = n})
InDeg(n) == Cardinality({i \in 1 .. Len(edgesIn) : edgesIn[i][2] = n})

OddNodes == {n \in NodeIds : (OutDeg(n) + InDeg(n)) % 2 = 1}
MoreOutNodes == {n \in NodeIds : OutDeg(n) > InDeg(n)}
MoreInNodes == {n \in NodeIds : InDeg(n) > OutDeg(n)}

\* how often the edge (a, b) occurs in a list of pairs, in either direction
\* for an undirected graph
PairCount(pairs, a, b) ==
    Cardinality({i \in 1 .. Len(pairs) :
                    \/ pairs[i] = <<a, b>>
                    \/ (undirected /\ pairs[i] = <<b, a>>)})

\* the consecutive pairs of a node sequence
WalkPairs(seq) == [i \in 1 .. (Len(seq) - 1) |-> <<seq[i], seq[i + 1]>>]

\* seq walks every edge of the graph exactly once
IsEulerianWalk(seq) ==
    /\ Len(seq) = Len(edgesIn) + 1
    /\ \A a \in NodeIds : \A b \in NodeIds :
          PairCount(WalkPairs(seq), a, b) = PairCount(edgesIn, a, b)

\* the graph has an Eulerian path, an Eulerian cycle when cyc
HasEulerian(cyc) ==
    \E seq \in [1 .. (Len(edgesIn) + 1) -> NodeIds] :
       /\ IsEulerianWalk(seq)
       /\ cyc => seq[1] = seq[Len(seq)]

\* the edges reachable from the edges in S through shared endpoints
RECURSIVE EdgeClosure(_)
EdgeClosure(S) ==
    LET T == S \cup {j \in 1 .. Len(edgesIn) :
                        \E i \in S :
                           {edgesIn[i][1], edgesIn[i][2]}
                              \cap {edgesIn[j][1], edgesIn[j][2]} # {}}
    IN  IF T = S THEN S ELSE EdgeClosure(T)

\* the edges lie in two or more disjoint connected components
EdgesDisconnected ==
    /\ Len(edgesIn) >= 1
    /\ EdgeClosure({1}) # 1 .. Len(edgesIn)

\* the degree condition of an Eulerian path (cycle when cyc)
DegreeConditionHolds(cyc) ==
    IF undirected
    THEN Cardinality(OddNodes) <= 2 /\ (cyc => OddNodes = {})
    ELSE /\ \A n \in NodeIds :
               OutDeg(n) - InDeg(n) \in {0 - 1, 0, 1}
         /\ Cardinality(MoreOutNodes) <= 1
         /\ Cardinality(MoreInNodes) <= 1
         /\ cyc => (MoreOutNodes = {} /\ MoreInNodes = {})

\* the degree test the solver must reject on: more than 2 odd nodes, or more
\* than one node with out > in, or more than one with in > out
DegreeCheckFails ==
    IF undirected
    THEN Cardinality(OddNodes) > 2
    ELSE Cardinality(MoreOutNodes) > 1 \/ Cardinality(MoreInNodes) > 1

\* C5: whenever the solver returns Some(seq), seq has e() + 1 entries and its
\* consecutive pairs (unordered for an undirected graph) are exactly the
\* graph's edge multiset
C5_SomeWalksEveryEdgeOnce ==
    (pc = "done" /\ out = "Some") => IsEulerianWalk(result)

\* C6: the solver returns None whenever the graph has no Eulerian path
\* (cycle = false) or no Eulerian cycle (cycle = true), so whatever it
\* returns as Some belongs to a graph that has one
C6_NoneWhenNoEulerianWalk ==
    (pc = "done" /\ out # "panic" /\ ~HasEulerian(cycle)) => out = "None"

\* C7: with more than 2 odd-degree nodes (undirected), or more than one node
\* of positive or of negative imbalance (directed), a solver call returns
\* None and takes no DFS step: no invocation, no used edge, no cursor moved
C7_DegreeCheckBeforeTraversal ==
    (pc \in {"dfs", "done"} /\ DegreeCheckFails) =>
        /\ pc = "done" /\ out = "None"
        /\ dfs_calls = 0 /\ stack = <<>> /\ result = <<>>
        /\ \A id \in 1 .. Len(used_edge) : ~used_edge[id]
        /\ \A n \in 1 .. Len(last_edge) : last_edge[n] = 0

\* C7 witness: an undirected graph with four odd-degree nodes was rejected
C7_Witness ==
    /\ pc = "done" /\ out = "None"
    /\ undirected /\ ~cycle
    /\ Cardinality(OddNodes) > 2
    /\ e >= 2

\* C8: a graph that satisfies the degree condition but whose edges lie in
\* two or more disjoint components gets None, the DFS result having fewer
\* than e() + 1 entries
C8_DisconnectedGivesNone ==
    (pc = "done" /\ DegreeConditionHolds(cycle) /\ EdgesDisconnected) =>
        /\ out = "None"
        /\ Len(result) < e + 1

\* C8 witness: the DFS walked one component of a graph with two and the
\* length check rejected the result
C8_Witness ==
    /\ pc = "done" /\ out = "None"
    /\ DegreeConditionHolds(cycle) /\ EdgesDisconnected
    /\ dfs_calls >= 2
    /\ \E id \in 1 .. e : used_edge[id]
    /\ \E id \in 1 .. e : ~used_edge[id]

\* C9: a solver call on any graph the Graph API produces, a graph with zero
\* nodes included, ends with Some or None and never with a fatal error
C9_SolverNeverAborts ==
    pc = "done" => out \in {"Some", "None"}

\* C21: when a cycle is requested the solver returns None for every
\* undirected graph with an odd-degree node and for every directed graph with
\* a node whose in-degree differs from its out-degree
C21_CycleNeedsBalancedDegrees ==
    (/\ pc = "done" /\ cycle
     /\ IF undirected THEN OddNodes # {}
        ELSE \E n \in NodeIds : InDeg(n) # OutDeg(n))
        => out = "None"

\* C21 witness: a cycle was asked of an undirected graph with two odd nodes,
\* which has an Eulerian path, and of it the solver returned None
C21_Witness ==
    /\ pc = "done" /\ cycle /\ undirected
    /\ Cardinality(OddNodes) = 2
    /\ HasEulerian(FALSE)
    /\ out = "None"

\* C22: whenever the graph admits an Eulerian cycle (path), that is the
\* degree condition holds and all edges lie in one connected component,
\* find_eulerian_cycle (find_eulerian_path) returns Some, whichever node ids
\* the edges use, also when node 0 has no incident edge
C22_SomeWheneverEulerian ==
    (/\ pc = "done" /\ v >= 1
     /\ DegreeConditionHolds(cycle) /\ ~EdgesDisconnected)
        => out = "Some"


-----------------------------------------------------------------------------
(* Termination, checked under TermSpec *)

\* the number of edges marked in used_edge
UsedCount == Cardinality({i \in 1 .. Len(used_edge) : used_edge[i]})

\* update moves pos up and query moves it down in every iteration, and
\* bin_search goes down one level
WalkProgress ==
    /\ (call.op = "update" /\ call'.op = "update") => call'.a > call.a
    /\ (call.op = "query" /\ call'.op = "query") => call'.a < call.a
    /\ (call.op = "bin_search" /\ call'.op = "bin_search") => call'.b < call.b

\* C23: every update, query and bin_search call that starts its loop returns,
\* each iteration of the walks moving pos strictly; every eulerian_dfs
\* started by solve_eulerian returns, and when it has, the number of
\* eulerian_dfs invocations made is one more than the number of edges consumed
C23_EveryOperationTerminates ==
    /\ (call.op \in {"update", "query", "bin_search"}) ~> WalkIdle
    /\ (pc = "dfs") ~> (pc = "done")
    /\ [][WalkProgress]_vars
    /\ [](pc = "done" /\ dfs_calls > 0 => dfs_calls = 1 + UsedCount)

C23_Witness ==
    /\ pc = "done" /\ out = "Some"
    /\ e = MaxE /\ dfs_calls = e + 1 /\ UsedCount = e


-----------------------------------------------------------------------------
(* bin_search on large trees, checked under LargeSpec *)

\* on the tree of n ones the prefix sum up to pos is pos, so the predicate
\* |val| val <= k is true exactly on the prefixes up to k
PrefixOfOnes ==
    call.op = "prefix_sum" => call.ret = <<call.a>>

\* C24: for every capacity n and every k in 0..=n, bin_search_sum with a
\* predicate true exactly on the prefixes up to k returns (k, k + 1), also
\* for n >= 2^30
C24_BinSearchAnyCapacity ==
    call.op = "bin_search_sum" => call.ret = <<call.a, call.a + 1>>

\* what the 30 levels do reach: every k below 2^30
BinSearchBelowLevelCap ==
    (call.op = "bin_search_sum" /\ call.a < LevelCap)
        => call.ret = <<call.a, call.a + 1>>

\* from 2^30 on the answer stays at (2^30 - 1, 2^30)
BinSearchAtLevelCap ==
    (call.op = "bin_search_sum" /\ call.a >= LevelCap)
        => call.ret = <<LevelCap - 1, LevelCap>>


-----------------------------------------------------------------------------
(* The recursion of eulerian_dfs, checked under EulerSpec *)

\* C25: the number of eulerian_dfs invocations nested in one another never
\* exceeds e() + 1
C25_DepthAtMostEdgesPlusOne == Len(stack) <= e + 1

C25_Witness ==
    /\ pc = "dfs" /\ e = MaxE
    /\ Len(stack) = e + 1


-----------------------------------------------------------------------------
(* Self-loops, checked under EulerSpec *)

\* the ids of the edges from a node to itself
SelfLoopIds ==
    {id \in 0 .. (e - 1) : At(edgesIn, id)[1] = At(edgesIn, id)[2]}

\* the node of self-loop id
LoopNode(id) == At(edgesIn, id)[1]

\* the entries of edge id in adj_list[n]
AdjEntries(n, id) ==
    Cardinality({i \in 1 .. Len(At(adj_list, n)) : At(adj_list, n)[i] = id})

\* what edge id adds to degree[n] in the counting loop of solve_eulerian
DegreeShare(n, id) ==
    Cardinality({p \in NodeIds \X (1 .. (2 * e)) :
                    /\ p[2] <= Len(At(adj_list, p[1]))
                    /\ At(adj_list, p[1])[p[2]] = id
                    /\ to(At(edges, id), p[1]) = n})

\* the sequence returned shows exactly as many consecutive pairs (n, n) as
\* there are self-loops at n
LoopPairsExact ==
    \A n \in NodeIds :
       PairCount(edgesIn, n, n) > 0 =>
          PairCount(WalkPairs(result), n, n) = PairCount(edgesIn, n, n)

\* the sequence returned shows a consecutive pair (n, n) for every self-loop
\* at n, and in an undirected graph no other pair (n, n)
LoopPairsShown ==
    \A n \in NodeIds :
       /\ PairCount(WalkPairs(result), n, n) >= PairCount(edgesIn, n, n)
       /\ undirected =>
             PairCount(WalkPairs(result), n, n) = PairCount(edgesIn, n, n)

\* a self-loop at n is consumed by an invocation at n and starts one at n
LoopConsumedInPlace ==
    \A id \in SelfLoopIds :
       (pc = "dfs" /\ ~At(used_edge, id) /\ At(used_edge', id))
           => /\ stack[Len(stack)] = LoopNode(id)
              /\ stack' = Append(stack, LoopNode(id))

\* a flag of used_edge that is set stays set
UsedStaysUsed ==
    pc = "dfs" =>
       \A id \in 0 .. (e - 1) : At(used_edge, id) => At(used_edge', id)

ChosenStart ==
    IF MoreOutNodes = {} THEN 0 ELSE CHOOSE n \in MoreOutNodes : TRUE

NewlyUsed == {id \in 0 .. (e - 1) : ~At(used_edge, id) /\ At(used_edge', id)}

\* a step of the DFS starts an invocation exactly when it sets the flag of
\* one edge, the edge under the cursor of the running invocation
RecursionSetsFlag ==
    pc = "dfs" =>
       /\ Cardinality(NewlyUsed) <= 1
       /\ dfs_calls' = dfs_calls + Cardinality(NewlyUsed)
       /\ Len(stack') > Len(stack) <=> NewlyUsed # {}
       /\ \A id \in NewlyUsed :
             LET node == stack[Len(stack)]
             IN  /\ At(At(adj_list, node), At(last_edge, node)) = id
                 /\ stack' = Append(stack, to(At(edges, id), node))

\* C28: a flag of used_edge goes from false to true only, the DFS recurses
\* through an edge only in the step that sets its flag, so every edge id is
\* consumed at most once, and at every moment the number of eulerian_dfs
\* invocations started is one more than the number of edges used
C28_EdgesConsumedOnce ==
    /\ [][UsedStaysUsed /\ RecursionSetsFlag]_vars
    /\ [](dfs_calls > 0 => dfs_calls = 1 + UsedCount)

\* an undirected edge already used is met in the list of its other endpoint
C28_Witness ==
    /\ pc = "dfs" /\ undirected /\ stack # <<>>
    /\ LET node == stack[Len(stack)]
       IN  /\ node \in NodeIds
           /\ At(last_edge, node) < Len(At(adj_list, node))
           /\ At(used_edge, At(At(adj_list, node), At(last_edge, node)))
    /\ dfs_calls = 1 + UsedCount /\ UsedCount = MaxE


-----------------------------------------------------------------------------
(* rectangle_sum over an unsigned element type, checked under Spec2dU *)

\* C29: with an unsigned element type no operator of rectangle_sum, taken
\* left to right, leaves the range of the type, and the call returns the sum
\* of the values in the rectangle
C29_RectangleSumStaysUnsigned ==
    call.op = "rectangle_sum" =>
       /\ ~RectangleOverflows(data, call.a[1], call.a[2], call.b[1], call.b[2])
       /\ ~call.panicked
       /\ call.ret = <<NaiveRectSum(arr, call.a[1], call.a[2],
                                    call.b[1], call.b[2])>>

\* a call that returns has the sum of the rectangle, wrapped or not
RectangleSumWhenReturned ==
    (call.op = "rectangle_sum" /\ ~call.panicked) =>
       call.ret = <<NaiveRectSum(arr, call.a[1], call.a[2],
                                 call.b[1], call.b[2])>>


\* the edges listed in adj_list[n] whose flag is set
UsedAt(n) ==
    {id \in 0 .. (e - 1) : At(used_edge, id) /\ AdjEntries(n, id) > 0}

\* no cursor moves back in a step of the DFS
CursorsNeverDecrease ==
    pc = "dfs" =>
       \A n \in NodeIds : At(last_edge', n) >= At(last_edge, n)

\* the entry a step of the DFS reads lies inside the list of the running node
ReadsInsideList ==
    (/\ pc = "dfs" /\ pc' = "dfs" /\ stack # <<>>
     /\ (NewlyUsed # {} \/ stack' = stack)) =>
       LET node == stack[Len(stack)]
       IN  /\ 0 <= At(last_edge, node)
           /\ At(last_edge, node) < Len(At(adj_list, node))

\* C30 as stated: a cursor never decreases and stays within
\* 0 <= last_edge[node] <= adj_list[node].len()
C30_CursorInsideList ==
    /\ [][CursorsNeverDecrease]_vars
    /\ [](pc \in {"dfs", "done"} =>
             \A n \in DOMAIN last_edge :
                /\ 0 <= last_edge[n]
                /\ last_edge[n] <= Len(adj_list[n]))

\* C30 amended: a cursor never decreases, is never negative, and every entry
\* the DFS reads lies inside the list; the cursor itself passes the end of
\* the list when an invocation returns into an invocation of the same node,
\* by at most one for every edge consumed at the node
C30_CursorNearList ==
    /\ [][CursorsNeverDecrease /\ ReadsInsideList]_vars
    /\ [](pc \in {"dfs", "done"} =>
             \A n \in NodeIds :
                n < Len(last_edge) =>
                   /\ 0 <= At(last_edge, n)
                   /\ At(last_edge, n)
                         <= Len(At(adj_list, n)) + Cardinality(UsedAt(n)))

\* a cursor has passed the end of its list on the return into a self-loop's
\* node
C30_Witness ==
    /\ pc = "done" /\ out = "Some"
    /\ \E n \in NodeIds :
          /\ At(last_edge, n) > Len(At(adj_list, n))
          /\ PairCount(edgesIn, n, n) > 0

=============================================================================
